---- MODULE Spec2Model ----
(***************************************************************************)
(* Flash-backed settings/profile store of the Pixels dice firmware:        *)
(*   src/src/drivers_nrf/flash.cpp  (Flash access layer, programFlash,     *)
(*                                   programSettings, programProfile)      *)
(*   src/src/config/settings.cpp    (SettingsManager: checkValid,          *)
(*                                   getSettings, writeToFlash, facade)    *)
(* The hardware (nrf_fstorage on the SoftDevice) is the environment: it    *)
(* queues the operations it is given, executes them in order and raises    *)
(* one completion event per operation.                                     *)
(***************************************************************************)
EXTENDS Integers, Sequences, FiniteSets, TLC

(* ------------------------------ bounds -------------------------------- *)
\* number of commit requests (facade mutations, programSettings,
\* programProfile) made in one run
MaxCalls == 2
\* operations the fstorage queue may hold when a new request arrives
MaxQueue == 2
\* heap blocks that can hold a Settings copy / a profile copy
SettingsBlocks == 2
ProfileBlocks == 2
\* flash geometry, in abstract units: erase unit, sizeof(Settings), and the
\* number of pages of the fstorage instance
PageSize == 4
SizeofSettings == 2
FlashPages == 2
(* flash.cpp: getUsableBytes *)
UsableBytes == FlashPages * PageSize

(* ----------------------- settings record (Settings) ------------------- *)
SETTINGS_VALID_KEY == 367489381
SETTINGS_VERSION == 3
SETTINGS_PAGE_COUNT == 1
\* an erased 32-bit word, 0xFFFFFFFF, as a two's complement 32-bit integer
Erased32 == -1
\* an erased byte
Erased8 == 255
DesignAndColor_Generic == 0
\* the default name "IAMADIE", as long as the name buffer can hold: its first
\* character
DefaultName == 73
\* outSettings.jerkClamp = 10.f, standing for the tuning parameters
JerkClampDefault == 10
\* BoardManager::getBoard()->ledCount; the calibration arrays of Settings have
\* two entries (faceNormals0/1, faceToLEDLookup0/1), so this board leaves the
\* last entry of each array unused
ledCount == 1
MaxLedCount == 2

\* layout order of the fields of Settings: a write programs them in this order
Fields == <<"headMarker", "version", "name", "nameEnd", "designAndColor",
            "currentBehaviorIndex",
            "jerkClamp", "faceNormals0", "faceNormals1", "faceLayoutLookupIndex",
            "faceToLEDLookup0", "faceToLEDLookup1", "tailMarker">>

FieldIndex(f) == CHOOSE i \in 1..Len(Fields) : Fields[i] = f

ErasedRecord ==
  [headMarker |-> Erased32, version |-> Erased32, name |-> Erased8,
   nameEnd |-> Erased8, designAndColor |-> Erased8, currentBehaviorIndex |-> Erased8,
   jerkClamp |-> Erased32, faceNormals0 |-> Erased32, faceNormals1 |-> Erased32,
   faceLayoutLookupIndex |-> Erased8, faceToLEDLookup0 |-> Erased8,
   faceToLEDLookup1 |-> Erased8, tailMarker |-> Erased32]

\* a Settings variable on the stack before anything is stored in it: every
\* byte holds what the stack held (g)
UninitSettings(g) == [f \in DOMAIN ErasedRecord |-> g]
StackGarbage == {0, 7}

\* what a memcpy from address 0 yields: the first words of the code flash
\* (the vector table), which are not a settings record
NullPageRecord == [f \in DOMAIN ErasedRecord |-> 0]

\* the result of getSettings() when the record is invalid
NullSettings == [null |-> TRUE]

RECURSIVE BitAndNat(_, _)
BitAndNat(a, b) ==
  IF a = 0 \/ b = 0 THEN 0
  ELSE (a % 2) * (b % 2) + 2 * BitAndNat(a \div 2, b \div 2)

\* NOR flash programming can only clear bits: the word read back after
\* programming new over old is old AND new
BitAnd(a, b) ==
  IF a = Erased32 THEN b
  ELSE IF b = Erased32 THEN a
  ELSE BitAndNat(a, b)

\* program the first k fields of record new over the flash contents old
ProgramWords(old, new, k) ==
  [f \in DOMAIN old |-> IF FieldIndex(f) <= k THEN BitAnd(old[f], new[f]) ELSE old[f]]

(* Config::DiceVariants::getDefaultNormals, getDefaultLookup *)
DefaultNormal(i) == 20 + i
DefaultLookup(i) == i
NormalField(i) == IF i = 0 THEN "faceNormals0" ELSE "faceNormals1"
LookupField(i) == IF i = 0 THEN "faceToLEDLookup0" ELSE "faceToLEDLookup1"

\* the bytes of Settings from name on, in layout order: the name buffer (one
\* character and its terminator), then the fields that follow it
NameBytes == <<"name", "nameEnd">>
BytesFromName == <<"name", "nameEnd", "designAndColor", "currentBehaviorIndex">>

\* strcpy(settings.name, src): the characters of src and a terminating 0 are
\* stored from the start of name on, as many as src has
strcpy(settings, src) ==
  LET bytes == Append(src, 0)
  IN [f \in DOMAIN settings |->
        IF \E k \in 1..Len(bytes) : BytesFromName[k] = f
        THEN bytes[CHOOSE k \in 1..Len(bytes) : BytesFromName[k] = f]
        ELSE settings[f]]

\* setDefaultParameters without the tuning parameters
setDefaultParameters_NoTuning(outSettings) ==
  [strcpy(outSettings, <<DefaultName>>) EXCEPT
                      !.designAndColor = DesignAndColor_Generic,
                      !.currentBehaviorIndex = 0]

(* settings.cpp: setDefaultParameters *)
setDefaultParameters(outSettings) ==
  [strcpy(outSettings, <<DefaultName>>) EXCEPT
                      !.designAndColor = DesignAndColor_Generic,
                      !.currentBehaviorIndex = 0,
                      !.jerkClamp = JerkClampDefault]

(* settings.cpp: setDefaultCalibrationData *)
setDefaultCalibrationData(outSettings) ==
  [f \in DOMAIN outSettings |->
     IF \E i \in 0..(ledCount - 1) : f = NormalField(i)
     THEN DefaultNormal(CHOOSE i \in 0..(ledCount - 1) : f = NormalField(i))
     ELSE IF \E i \in 0..(ledCount - 1) : f = LookupField(i)
     THEN DefaultLookup(CHOOSE i \in 0..(ledCount - 1) : f = LookupField(i))
     ELSE IF f = "faceLayoutLookupIndex" THEN 0
     ELSE outSettings[f]]

(* settings.cpp: setDefaults; outSettings is the memory it is given *)
setDefaults(outSettings) ==
  LET a == [outSettings EXCEPT !.headMarker = SETTINGS_VALID_KEY,
                               !.version = SETTINGS_VERSION]
      b == setDefaultCalibrationData(setDefaultParameters(a))
  IN [b EXCEPT !.tailMarker = SETTINGS_VALID_KEY]

\* the record in flash when the model starts: written by an earlier
\* programDefaults, then given a tuned jerkClamp by a settings download
InitialRecord == [setDefaults(UninitSettings(0)) EXCEPT !.jerkClamp = JerkClampDefault + 2]

\* checkValid without the test of the tail marker
checkValid_NoTail(s) ==
  /\ s.headMarker = SETTINGS_VALID_KEY
  /\ s.version = SETTINGS_VERSION

(* settings.cpp: checkValid, on a record image *)
checkValid(s) ==
  /\ s.headMarker = SETTINGS_VALID_KEY
  /\ s.version = SETTINGS_VERSION
  /\ s.tailMarker = SETTINGS_VALID_KEY

(* ----------------------------- profile blob --------------------------- *)
\* "P1", "P2": profiles uploaded by the user; "PD": the default profile;
\* "FF": an erased region; "XX": a region that holds no valid profile
\* "P6" fills the flash exactly; "PX7" and "PX8" are what a caller of
\* programProfile announces when the profile does not fit
UserBlobs == {"P1", "P2"}
ValidBlobs == UserBlobs \cup {"PD", "P6"}
BlobSize(b) ==
  CASE b = "PD" -> 1
    [] b = "P6" -> UsableBytes - SizeofSettings
    [] b = "PX7" -> UsableBytes - 1
    [] b = "PX8" -> UsableBytes
    [] OTHER -> 2
ProfileCapacity == UsableBytes - SizeofSettings

Trunc16(x) == x % 65536

Max(a, b) == IF a >= b THEN a ELSE b

VARIABLES
  \* hardware
  flashSettings,     \* contents of the settings region
  flashProfile,      \* contents of the profile region
  profileClean,      \* leading units of the profile region that are erased
  hwQueue,           \* operations queued in nrf_fstorage, oldest first
  faulted,           \* APP_ERROR_CHECK failed or the CPU faulted: the device stops
  \* flash.cpp statics
  callback,          \* Flash::callback, the single pending-callback slot
  ps_onProgramFinished, ps_settingsCopy, ps_profileCopy, ps_profileSize, ps_freeProfile,
  pp_onProgramFinished, pp_settingsCopy,
  pf_programSettingsFunc, pf_programProfileFunc, pf_onProgramFinished,
  \* settings.cpp statics
  writeToFlashCallback, sourceSettings, programNameCallback, init_callback,
  \* heap
  settingsHeap, profileHeap,
  \* observations
  nCalls, calls, committed, lastDone,
  depthW, depthF,    \* Begin minus End notifications, per listener registry
  doubleFree, uafWrite, overlapStart, cbMismatch,
  steps,             \* what the last handler did, in the order it did it
  sent,              \* messages handed to MessageService::SendMessage, oldest first
  bulk,              \* ReceiveBulkData: "idle" or "receiving" into the settings page
  registered,        \* the message handlers of the settings are registered
  listeners          \* per registry, a client of the programming events

hwVars == <<flashSettings, flashProfile, profileClean>>
psVars == <<ps_onProgramFinished, ps_settingsCopy, ps_profileCopy, ps_profileSize, ps_freeProfile>>
ppVars == <<pp_onProgramFinished, pp_settingsCopy>>
pfVars == <<pf_programSettingsFunc, pf_programProfileFunc, pf_onProgramFinished>>
wVars == <<writeToFlashCallback, sourceSettings, programNameCallback, init_callback>>
heapVars == <<settingsHeap, profileHeap>>
obsVars == <<nCalls, calls, committed, lastDone, depthW, depthF,
             doubleFree, uafWrite, overlapStart, cbMismatch>>

msgVars == <<sent, bulk, registered>>

vars == <<hwVars, hwQueue, faulted, callback, psVars, ppVars, pfVars, wVars,
          heapVars, obsVars, steps, msgVars, listeners>>

(* --------------------- programming event clients --------------------- *)
\* the registries: SettingsManager::programmingClients ("W") and
\* Flash::programmingClients ("F"). Of each, one client is followed: whether it
\* is registered, the last notification it received, and whether it has
\* received two Begin or two End in a row, or End first
Registries == {"W", "F"}
NoListeners ==
  [r \in Registries |-> [hooked |-> FALSE, last |-> "none", misordered |-> FALSE]]

\* the notification loop over the clients registered at that moment
Notify(l, r, ev) ==
  IF l[r].hooked
  THEN [l EXCEPT ![r].last = ev,
                 ![r].misordered = @ \/ l[r].last = ev
                                     \/ (ev = "End" /\ l[r].last = "none")]
  ELSE l

\* the steps of a handler, as a set
StepSet(sq) == {sq[i] : i \in 1..Len(sq)}

(* ------------------------------- heap --------------------------------- *)
\* a pointer is a block number, 0 is nullptr; a freed block keeps its bytes
FreeBlocks(h) == {b \in DOMAIN h : ~h[b].used}
LowestFree(h) == CHOOSE b \in FreeBlocks(h) : \A c \in FreeBlocks(h) : b <= c
\* malloc: nullptr (the heap is shared with the rest of the firmware) or a block
MallocChoices(h) == {0} \cup (IF FreeBlocks(h) = {} THEN {} ELSE {LowestFree(h)})
Free(h, p) == IF p = 0 THEN h ELSE [h EXCEPT ![p].used = FALSE]
IsDoubleFree(h, p) == p # 0 /\ ~h[p].used

(* ------------------------- hardware operations ------------------------ *)
\* cb and solo are observations: the callback supplied with the call, and
\* whether the call was made with no other operation outstanding
EraseOp(pages, cb, solo) ==
  [kind |-> "erase", pages |-> pages, buf |-> 0, blob |-> "none", size |-> 0,
   st |-> "pending", cb |-> cb, solo |-> solo]
WriteSettingsOp(buf, cb, solo) ==
  [kind |-> "wsettings", pages |-> 0, buf |-> buf, blob |-> "none", size |-> SizeofSettings,
   st |-> "pending", cb |-> cb, solo |-> solo]
\* blob = "heap": the data is in profile heap block buf; otherwise the data is
\* the caller's own blob
WriteProfileOp(buf, blob, size, cb, solo) ==
  [kind |-> "wprofile", pages |-> 0, buf |-> buf, blob |-> blob, size |-> size,
   st |-> "pending", cb |-> cb, solo |-> solo]

NoDone == [id |-> 0, result |-> FALSE]
NoArg == [none |-> TRUE]
\* live: the bytes of the settings page when the call was made; arg: its
\* inputs; from: the call whose completion callback made this call (0: none)
NoCall ==
  [kind |-> "none", rec |-> NullSettings, psize |-> 0, ret |-> "none",
   cbCount |-> 0, cbResult |-> FALSE, before |-> NullSettings, profBefore |-> "none",
   begins |-> 0, oom |-> FALSE, live |-> NullSettings, arg |-> NoArg, from |-> 0]

\* values of the static _writeToFlashCallback other than nullptr (0) and a
\* caller's callback (the number of the call): the lambda of programName and
\* the lambda finishInit of init
programNameLambda == -1
finishInit == -2
\* the completion lambdas the message handlers give to the facade
ProgramDefaultParametersLambda == -3
SetDesignTypeAndColorLambda == -4
SetCurrentBehaviorLambda == -5
SetNameLambda == -6
HandlerLambdas ==
  {ProgramDefaultParametersLambda, SetDesignTypeAndColorLambda,
   SetCurrentBehaviorLambda, SetNameLambda}

\* the message a handler's completion lambda sends when it is called with
\* result
AckMessage(cb, result) ==
  CASE cb = ProgramDefaultParametersLambda -> "MessageType_ProgramDefaultParametersFinished"
    [] cb = SetDesignTypeAndColorLambda -> "MessageType_SetDesignAndColorAck"
    [] cb = SetCurrentBehaviorLambda -> "MessageType_SetCurrentBehaviorAck"
    [] cb = SetNameLambda -> "MessageType_SetNameAck"

(* settings.cpp: getSettings *)
getSettings == IF ~checkValid(flashSettings) THEN NullSettings ELSE flashSettings

Busy == hwQueue # <<>> \/ callback # "null"

\* everything but the contents of the settings page, the static profileSize
\* and the registration of the message handlers
InitRest ==
  /\ flashProfile = "P1"
  /\ profileClean = 0
  /\ hwQueue = <<>>
  /\ faulted = FALSE
  /\ callback = "null"
  /\ ps_onProgramFinished = 0 /\ ps_settingsCopy = 0 /\ ps_profileCopy = 0
  /\ ps_freeProfile = "freeProfile"
  /\ pp_onProgramFinished = 0 /\ pp_settingsCopy = 0
  /\ pf_programSettingsFunc = "none"
  /\ pf_programProfileFunc = [who |-> "none", blob |-> "none"]
  /\ pf_onProgramFinished = "none"
  /\ writeToFlashCallback = 0 /\ sourceSettings = 0
  /\ programNameCallback = 0 /\ init_callback = 0
  /\ settingsHeap = [b \in 1..SettingsBlocks |-> [used |-> FALSE, data |-> ErasedRecord]]
  /\ profileHeap = [b \in 1..ProfileBlocks + 1 |-> [used |-> FALSE, data |-> "XX"]]
  /\ nCalls = 0
  /\ calls = [i \in 1..MaxCalls |-> NoCall]
  /\ lastDone = NoDone
  /\ depthW = 0 /\ depthF = 0
  /\ doubleFree = FALSE /\ uafWrite = FALSE /\ overlapStart = FALSE /\ cbMismatch = FALSE
  /\ steps = <<>> /\ sent = <<>> /\ bulk = "idle"
  /\ listeners = NoListeners

Init ==
  /\ flashSettings = InitialRecord
  /\ committed = {InitialRecord}
  /\ ps_profileSize = 0
  /\ registered = TRUE
  /\ InitRest

(* ---------------- hardware: execution of the oldest operation ---------- *)
\* erase of j pages from the flash origin (j < pages when the erase failed)
ErasedProfile(j) ==
  IF j = 0 THEN flashProfile
  ELSE IF flashProfile = "FF" THEN "FF"
  ELSE IF flashProfile \in ValidBlobs /\ SizeofSettings + BlobSize(flashProfile) <= j * PageSize
       THEN "FF" ELSE "XX"
CleanAfterErase(j) ==
  IF j = 0 THEN profileClean
  ELSE IF ErasedProfile(j) = "FF" THEN ProfileCapacity
  ELSE Max(j * PageSize - SizeofSettings, 0)

\* what the hardware reads from a settings staging buffer when it executes
SettingsBufferReads(p) ==
  IF p = 0 THEN {NullPageRecord}
  ELSE IF settingsHeap[p].used THEN {settingsHeap[p].data}
  ELSE {settingsHeap[p].data, [settingsHeap[p].data EXCEPT !.headMarker = 0]}
ProfileBufferReads(op) ==
  IF op.blob # "heap" THEN {op.blob}
  ELSE IF op.buf = 0 THEN {"XX"}
  ELSE IF profileHeap[op.buf].used THEN {profileHeap[op.buf].data}
  ELSE {profileHeap[op.buf].data, "XX"}
ReadsFreed(op) ==
  \/ op.kind = "wsettings" /\ op.buf # 0 /\ ~settingsHeap[op.buf].used
  \/ op.kind = "wprofile" /\ op.blob = "heap" /\ op.buf # 0 /\ ~profileHeap[op.buf].used

WrittenProfile(data, size) ==
  IF /\ data \in ValidBlobs
     /\ BlobSize(data) = size
     /\ (flashProfile = "FF" \/ size <= profileClean)
  THEN data ELSE "XX"

HwExecute ==
  /\ ~faulted
  /\ hwQueue # <<>>
  /\ hwQueue[1].st = "pending"
  /\ LET op == hwQueue[1] IN
     \E ok \in BOOLEAN :
       /\ hwQueue' = [hwQueue EXCEPT ![1].st = IF ok THEN "ok" ELSE "fail"]
       /\ uafWrite' = (uafWrite \/ ReadsFreed(op))
       /\ CASE op.kind = "erase" ->
                 \E j \in (IF ok THEN {op.pages} ELSE 0..(op.pages - 1)) :
                   /\ flashSettings' = (IF j >= 1 THEN ErasedRecord ELSE flashSettings)
                   /\ flashProfile' = ErasedProfile(j)
                   /\ profileClean' = CleanAfterErase(j)
            [] op.kind = "wsettings" ->
                 \E data \in SettingsBufferReads(op.buf) :
                 \E k \in (IF ok THEN {Len(Fields)} ELSE 0..(Len(Fields) - 1)) :
                   /\ flashSettings' = ProgramWords(flashSettings, data, k)
                   /\ UNCHANGED <<flashProfile, profileClean>>
            [] op.kind = "wprofile" ->
                 \E data \in ProfileBufferReads(op) :
                 \E new \in (IF ok THEN {WrittenProfile(data, op.size)}
                                   ELSE {flashProfile, "XX"}) :
                   /\ flashProfile' = new
                   /\ profileClean' = (IF new = flashProfile /\ ~ok THEN profileClean ELSE 0)
                   /\ UNCHANGED flashSettings
  /\ lastDone' = NoDone
  /\ steps' = <<>>
  /\ UNCHANGED <<faulted, callback, psVars, ppVars, pfVars, wVars, heapVars,
                 nCalls, calls, committed, depthW, depthF, doubleFree, overlapStart,
                 cbMismatch, msgVars, listeners>>

(* ------------------- caller callbacks (observations) ------------------ *)
\* a caller's own callback (the one of call number id) is invoked; it sends
\* no message
Invoke(id, result) ==
  /\ calls' = [calls EXCEPT ![id].cbCount = @ + 1, ![id].cbResult = result]
  /\ lastDone' = [id |-> id, result |-> result]
  /\ sent' = sent
NoInvoke ==
  /\ calls' = calls
  /\ lastDone' = NoDone
  /\ sent' = sent

\* callbackCopy(result) for a SettingsWrittenCallback that is not null: a
\* caller's callback, or the lambda of a message handler, which sends its
\* message
SettingsWritten(cb, result) ==
  IF cb \in HandlerLambdas
  THEN /\ calls' = calls
       /\ lastDone' = NoDone
       /\ sent' = Append(sent, [msg |-> AckMessage(cb, result), result |-> result])
  ELSE Invoke(cb, result)
SettingsWrittenSteps(cb, result) ==
  IF cb \in HandlerLambdas THEN <<AckMessage(cb, result)>> ELSE <<"callback">>

(* ---------------------- flash.cpp: write, erase ----------------------- *)
\* Flash::write of a settings staging buffer, from a completion callback (q
\* is the queue without the completed operation). nrf_fstorage_write refuses
\* a null source when its parameter checks are compiled in: APP_ERROR_CHECK
\* then stops the device.
FlashWriteSettings(q, buf, cb) ==
  /\ callback' = cb
  /\ \/ /\ hwQueue' = Append(q, WriteSettingsOp(buf, cb, q = <<>>))
        /\ faulted' = FALSE
     \/ /\ buf = 0
        /\ hwQueue' = q
        /\ faulted' = TRUE
FlashWriteProfile(q, buf, blob, size, cb) ==
  /\ callback' = cb
  /\ \/ /\ hwQueue' = Append(q, WriteProfileOp(buf, blob, size, cb, q = <<>>))
        /\ faulted' = FALSE
     \/ /\ blob = "heap" /\ buf = 0
        /\ hwQueue' = q
        /\ faulted' = TRUE
\* Flash::erase: nrf_fstorage_erase refuses a span outside the instance
FlashErase(q, pages, cb) ==
  /\ callback' = cb
  /\ IF pages * PageSize <= UsableBytes
     THEN /\ hwQueue' = Append(q, EraseOp(pages, cb, q = <<>>))
          /\ faulted' = FALSE
     ELSE /\ hwQueue' = q
          /\ faulted' = TRUE

\* getFlashByteSize with the size rounded down to whole pages
getFlashByteSize_RoundDown(totalDataByteSize) ==
  PageSize * (totalDataByteSize \div PageSize)

(* flash.cpp: bytesToPages, getFlashByteSize *)
bytesToPages(size) == (size + PageSize - 1) \div PageSize
getFlashByteSize(totalDataByteSize) ==
  PageSize * ((totalDataByteSize + PageSize - 1) \div PageSize)

(* ------------------- settings.cpp: writeToFlash ----------------------- *)
(* finishWrite *)
finishWrite(result, q) ==
  /\ settingsHeap' = Free(settingsHeap, sourceSettings)
  /\ doubleFree' = (doubleFree \/ IsDoubleFree(settingsHeap, sourceSettings))
  /\ sourceSettings' = 0
  /\ depthW' = depthW - 1
  /\ writeToFlashCallback' = 0
  /\ CASE writeToFlashCallback = 0 ->
            /\ NoInvoke
            /\ steps' = <<"free settings", "End">>
            /\ UNCHANGED <<programNameCallback, init_callback>>
       [] writeToFlashCallback = programNameLambda ->
            \* Stack::resetOnDisconnect(); then the callback of programName
            /\ programNameCallback' = 0
            /\ init_callback' = init_callback
            /\ IF programNameCallback # 0
               THEN /\ SettingsWritten(programNameCallback, result)
                    /\ steps' = <<"free settings", "End", "Stack::resetOnDisconnect">>
                                   \o SettingsWrittenSteps(programNameCallback, result)
               ELSE /\ NoInvoke
                    /\ steps' = <<"free settings", "End", "Stack::resetOnDisconnect">>
       [] writeToFlashCallback = finishInit ->
            \* the message handlers are registered; then the callback of init
            /\ init_callback' = 0
            /\ programNameCallback' = programNameCallback
            /\ steps' = <<"free settings", "End", "RegisterMessageHandler">>
                           \o (IF init_callback # 0 THEN <<"callback">> ELSE <<>>)
            /\ IF init_callback # 0 THEN Invoke(init_callback, result) ELSE NoInvoke
       [] OTHER ->
            /\ SettingsWritten(writeToFlashCallback, result)
            /\ steps' = <<"free settings", "End">> \o SettingsWrittenSteps(writeToFlashCallback, result)
            /\ UNCHANGED <<programNameCallback, init_callback>>
  /\ hwQueue' = q
  /\ callback' = "null"
  /\ faulted' = FALSE
  /\ UNCHANGED <<psVars, ppVars, pfVars, profileHeap, depthF>>

(* the erase completion lambda of writeToFlash *)
W_erased(result, q) ==
  IF result
  THEN /\ FlashWriteSettings(q, sourceSettings, "W_written")
       /\ NoInvoke
       /\ steps' = <<"write settings">>
       /\ UNCHANGED <<psVars, ppVars, pfVars, wVars, heapVars, depthW, depthF, doubleFree>>
  ELSE finishWrite(FALSE, q)

(* the write completion lambda of writeToFlash *)
W_written(result, q) == finishWrite(result, q)

\* the body of writeToFlash(sourceSettings, callback) for call number id of
\* the facade operation kind with inputs arg; cb is the callback it is given
writeToFlash(rec, id, kind, arg, cb) ==
  \E b \in MallocChoices(settingsHeap) :
    /\ depthW' = depthW + 1
    /\ writeToFlashCallback' = cb
    /\ sourceSettings' = b
    /\ settingsHeap' = (IF b = 0 THEN settingsHeap
                        ELSE [settingsHeap EXCEPT ![b] = [used |-> TRUE, data |-> rec]])
    \* memcpy to a null destination: the CPU faults, or the store is ignored
    /\ \/ /\ FlashErase(hwQueue, SETTINGS_PAGE_COUNT, "W_erased")
       \/ /\ b = 0
          /\ faulted' = TRUE
          /\ UNCHANGED <<hwQueue, callback>>
    /\ nCalls' = id
    /\ calls' = [calls EXCEPT ![id] =
                   [kind |-> kind, rec |-> rec, psize |-> 0, ret |-> "accepted",
                    cbCount |-> 0, cbResult |-> FALSE, before |-> getSettings,
                    profBefore |-> flashProfile, begins |-> 1, oom |-> (b = 0),
                    live |-> flashSettings, arg |-> arg, from |-> lastDone.id]]
    /\ committed' = committed \cup {rec}
    /\ lastDone' = NoDone
    /\ overlapStart' = (overlapStart \/ Busy)
    /\ steps' = <<"Begin", "malloc settings", "memcpy settings">>
                   \o (IF hwQueue' # hwQueue THEN <<"erase">> ELSE <<>>)
    /\ listeners' = Notify(listeners, "W", "Begin")
    /\ UNCHANGED <<hwVars, psVars, ppVars, pfVars, profileHeap, depthF,
                   doubleFree, uafWrite, cbMismatch, msgVars>>

CanCall == ~faulted /\ nCalls < MaxCalls /\ Len(hwQueue) < MaxQueue

Designs == {1, 3}
Behaviors == {1}

(* settings.cpp: programDefaults *)
programDefaults ==
  /\ CanCall
  /\ \E g \in StackGarbage :
       /\ writeToFlash(setDefaults(UninitSettings(g)), nCalls + 1, "programDefaults",
                       NoArg, nCalls + 1)
       /\ UNCHANGED <<programNameCallback, init_callback>>

(* settings.cpp: programDesignAndColor *)
programDesignAndColorWith(cb) ==
  /\ CanCall
  /\ \E design \in Designs :
       /\ writeToFlash([flashSettings EXCEPT !.designAndColor = design], nCalls + 1,
                       "programDesignAndColor", [design |-> design], cb)
       /\ UNCHANGED <<programNameCallback, init_callback>>

\* called with the caller's own callback
programDesignAndColor == programDesignAndColorWith(nCalls + 1)

(* settings.cpp: programCurrentBehavior *)
programCurrentBehaviorWith(cb) ==
  /\ CanCall
  /\ \E behaviorIndex \in Behaviors :
       /\ writeToFlash([flashSettings EXCEPT !.currentBehaviorIndex = behaviorIndex],
                       nCalls + 1, "programCurrentBehavior",
                       [behaviorIndex |-> behaviorIndex], cb)
       /\ UNCHANGED <<programNameCallback, init_callback>>

programCurrentBehavior == programCurrentBehaviorWith(nCalls + 1)

(* settings.cpp: programDefaultParameters *)
programDefaultParametersWith(cb) ==
  /\ CanCall
  /\ \E g \in StackGarbage :
     LET reset == setDefaults(UninitSettings(g))
         \* "Copy over everything": memcpy(&settingsCopy, settings, sizeof(Settings))
         settingsCopy == [f \in DOMAIN reset |-> flashSettings[f]]
     IN /\ writeToFlash(setDefaultParameters(settingsCopy), nCalls + 1,
                        "programDefaultParameters", NoArg, cb)
        /\ UNCHANGED <<programNameCallback, init_callback>>

programDefaultParameters == programDefaultParametersWith(nCalls + 1)

\* inputs of programCalibrationData: measured normals, layout index, lookup
\* table and the number of entries to take from them
CalibrationInputs ==
  {[newNormals |-> <<41, 42>>, faceLayoutLookupIndex |-> 2,
    newFaceToLEDLookup |-> <<5, 6>>, count |-> c] : c \in 1..MaxLedCount}

\* the same with every entry of the two arrays copied, whatever count is
WithCalibration_AllEntries(settingsCopy, in) ==
  [settingsCopy EXCEPT !.faceNormals0 = in.newNormals[1],
                       !.faceNormals1 = in.newNormals[2],
                       !.faceToLEDLookup0 = in.newFaceToLEDLookup[1],
                       !.faceToLEDLookup1 = in.newFaceToLEDLookup[2],
                       !.faceLayoutLookupIndex = in.faceLayoutLookupIndex]

\* memcpy of the first count entries of the two arrays, and the layout index
WithCalibration(settingsCopy, in) ==
  [f \in DOMAIN settingsCopy |->
     IF \E i \in 0..(in.count - 1) : f = NormalField(i)
     THEN in.newNormals[1 + CHOOSE i \in 0..(in.count - 1) : f = NormalField(i)]
     ELSE IF \E i \in 0..(in.count - 1) : f = LookupField(i)
     THEN in.newFaceToLEDLookup[1 + CHOOSE i \in 0..(in.count - 1) : f = LookupField(i)]
     ELSE IF f = "faceLayoutLookupIndex" THEN in.faceLayoutLookupIndex
     ELSE settingsCopy[f]]

(* settings.cpp: programCalibrationData *)
programCalibrationData ==
  /\ CanCall
  /\ \E g \in StackGarbage :
     \E in \in CalibrationInputs :
     LET reset == setDefaults(UninitSettings(g))
         settingsCopy == [f \in DOMAIN reset |-> flashSettings[f]]
     IN /\ writeToFlash(WithCalibration(settingsCopy, in), nCalls + 1,
                        "programCalibrationData", in, nCalls + 1)
        /\ UNCHANGED <<programNameCallback, init_callback>>

\* a name that fits the buffer, and one that is longer than the buffer
Names == {<<78>>, <<78, 79, 80>>}

(* settings.cpp: programName *)
programNameWith(names, cb) ==
  /\ CanCall
  /\ \E newName \in names :
       /\ programNameCallback' = cb
       /\ init_callback' = init_callback
       /\ writeToFlash(strcpy(flashSettings, newName), nCalls + 1,
                       "programName", [newName |-> newName], programNameLambda)

programName == programNameWith(Names, nCalls + 1)

(* --------------------- profile collaborator --------------------------- *)
(* Profile::Static::CheckValid, getSize, refreshData: the stored profile is
   valid iff the profile region holds a whole profile *)
ProfileCheckValid == flashProfile \in ValidBlobs
ProfileGetSize == BlobSize(flashProfile)
refreshData == flashProfile \in ValidBlobs
\* what a freshly malloc'ed, never written profile buffer may hold
UninitBlobs == UserBlobs \cup {"XX"}

(* ---------------------- flash.cpp: programFlash ----------------------- *)
(* finishProgramming(); _onProgramFinished(result) with
   _onProgramFinished = programSettings::_thisProgrammingFinished *)
ps_thisProgrammingFinished(result) ==
  /\ settingsHeap' = Free(settingsHeap, ps_settingsCopy)
  /\ profileHeap' = Free(profileHeap, ps_profileCopy)
  /\ doubleFree' = (\/ doubleFree
                    \/ IsDoubleFree(settingsHeap, ps_settingsCopy)
                    \/ IsDoubleFree(profileHeap, ps_profileCopy))
  /\ ps_settingsCopy' = 0
  /\ ps_profileCopy' = 0
  /\ ps_profileSize' = 0
  /\ IF ps_onProgramFinished # 0
     THEN /\ Invoke(ps_onProgramFinished, IF result THEN refreshData ELSE FALSE)
          /\ faulted' = FALSE
     ELSE /\ NoInvoke
          /\ faulted' = TRUE
  /\ steps' = <<"End", "free settings", "free profile">>
                 \o (IF result THEN <<"refreshData">> ELSE <<>>)
                 \o (IF ps_onProgramFinished # 0 THEN <<"callback">> ELSE <<>>)
  /\ UNCHANGED <<ps_onProgramFinished, ps_freeProfile, ppVars>>

(* the same with _onProgramFinished = programProfile::_thisProgrammingFinished *)
pp_thisProgrammingFinished(result) ==
  /\ settingsHeap' = Free(settingsHeap, pp_settingsCopy)
  /\ doubleFree' = (doubleFree \/ IsDoubleFree(settingsHeap, pp_settingsCopy))
  /\ pp_settingsCopy' = 0
  /\ IF pp_onProgramFinished # 0
     THEN /\ Invoke(pp_onProgramFinished, result)
          /\ faulted' = FALSE
     ELSE /\ NoInvoke
          /\ faulted' = TRUE
  /\ steps' = <<"End", "free settings">>
                 \o (IF pp_onProgramFinished # 0 THEN <<"callback">> ELSE <<>>)
  /\ UNCHANGED <<pp_onProgramFinished, psVars, profileHeap>>

\* the same with the pending-callback slot left as it is
F_finish_SlotKept(result, q) ==
  /\ depthF' = depthF - 1
  /\ hwQueue' = q
  /\ callback' = callback
  /\ IF pf_onProgramFinished = "ps_this"
     THEN ps_thisProgrammingFinished(result)
     ELSE pp_thisProgrammingFinished(result)
  /\ UNCHANGED <<pfVars, wVars, depthW>>

\* the terminal steps of programFlash's lambdas, run by fstorage_evt_handler
\* after it has cleared the slot
F_finish(result, q) ==
  /\ depthF' = depthF - 1
  /\ hwQueue' = q
  /\ callback' = "null"
  /\ IF pf_onProgramFinished = "ps_this"
     THEN ps_thisProgrammingFinished(result)
     ELSE pp_thisProgrammingFinished(result)
  /\ UNCHANGED <<pfVars, wVars, depthW>>

(* the erase completion lambda of programFlash *)
F_erased(result, q) ==
  IF result
  THEN /\ FlashWriteSettings(q, IF pf_programSettingsFunc = "ps" THEN ps_settingsCopy
                                ELSE pp_settingsCopy, "F_settings")
       /\ NoInvoke
       /\ steps' = <<"write settings">>
       /\ UNCHANGED <<psVars, ppVars, pfVars, wVars, heapVars, depthW, depthF, doubleFree>>
  ELSE F_finish(FALSE, q)

(* the settings-write completion lambda of programFlash *)
F_settings(result, q) ==
  IF result
  THEN /\ IF pf_programProfileFunc.who = "ps"
          THEN FlashWriteProfile(q, ps_profileCopy, "heap", ps_profileSize, "F_profile")
          ELSE FlashWriteProfile(q, 0, pf_programProfileFunc.blob,
                                 BlobSize(pf_programProfileFunc.blob), "F_profile")
       /\ NoInvoke
       /\ steps' = <<"write profile">>
       /\ UNCHANGED <<psVars, ppVars, pfVars, wVars, heapVars, depthW, depthF, doubleFree>>
  ELSE F_finish(FALSE, q)

(* the profile-write completion lambda of programFlash *)
F_profile(result, q) == F_finish(result, q)

\* what programFlash does, in order
programFlashSteps(profileSize) ==
  IF UsableBytes > profileSize THEN <<"Begin", "erase">> ELSE <<>>

\* the body of programFlash; sets depthF, hwQueue, callback, faulted, pfVars
\* and yields the call's return in ret
programFlash(profileSize, settingsFunc, profileFunc, onFinished, ret) ==
  /\ pf_programSettingsFunc' = settingsFunc
  /\ pf_programProfileFunc' = profileFunc
  /\ pf_onProgramFinished' = onFinished
  /\ IF UsableBytes > profileSize
     THEN /\ depthF' = depthF + 1
          /\ FlashErase(hwQueue,
                        bytesToPages(getFlashByteSize(profileSize + SizeofSettings)),
                        "F_erased")
          \* APP_ERROR_CHECK(rc) in Flash::erase does not return
          /\ ret = (IF faulted' THEN "faulted" ELSE "accepted")
     ELSE /\ ret = "refused"
          /\ UNCHANGED <<depthF, hwQueue, callback, faulted>>

(* --------------------- flash.cpp: programSettings --------------------- *)
MallocProfile ==
  LET f == FreeBlocks(profileHeap) \cap (1..ProfileBlocks) IN
  IF f = {} THEN {} ELSE {CHOOSE b \in f : \A c \in f : b <= c}

(* Profile::Data::createDefaultProfile(&profileSize) *)
DefaultProfileCopy ==
  [ptr |-> IF FreeBlocks(profileHeap) = {} THEN 0 ELSE LowestFree(profileHeap),
   data |-> "PD", size |-> BlobSize("PD"), fn |-> "freeDefaultProfile"]

\* "Make a copy of the profile, if possible": the buffer is allocated with the
\* stored profile's size and is not written before it is programmed
ProfileCopyChoices ==
  IF ProfileCheckValid
  THEN {[ptr |-> pb, data |-> u, size |-> ProfileGetSize, fn |-> "freeProfile"] :
          pb \in MallocProfile, u \in UninitBlobs} \cup {DefaultProfileCopy}
  ELSE {DefaultProfileCopy}

NewSettingsInputs == {[InitialRecord EXCEPT !.designAndColor = d] : d \in Designs}

programSettings ==
  /\ CanCall
  /\ \E newSettings \in NewSettingsInputs :
     \E b \in MallocChoices(settingsHeap) :
     LET id == nCalls + 1
         call == [kind |-> "programSettings", rec |-> newSettings, psize |-> 0,
                  ret |-> "refused", cbCount |-> 0, cbResult |-> FALSE,
                  before |-> getSettings, profBefore |-> flashProfile,
                  begins |-> 0, oom |-> (b = 0), live |-> flashSettings, arg |-> NoArg,
                  from |-> lastDone.id]
     IN
       /\ ps_onProgramFinished' = id
       /\ ps_settingsCopy' = b
       /\ IF b = 0
          THEN /\ ps_freeProfile' = "freeProfile"
               /\ calls' = [calls EXCEPT ![id] = call]
               /\ steps' = <<"malloc settings">>
               /\ UNCHANGED <<ps_profileCopy, ps_profileSize, heapVars, pfVars, depthF,
                              hwQueue, callback, faulted>>
          ELSE \E pc \in ProfileCopyChoices :
               \E ret \in {"accepted", "refused", "faulted"} :
                 /\ settingsHeap' = [settingsHeap EXCEPT ![b] =
                                       [used |-> TRUE, data |-> newSettings]]
                 /\ ps_profileCopy' = pc.ptr
                 /\ ps_profileSize' = pc.size
                 /\ ps_freeProfile' = pc.fn
                 /\ profileHeap' = (IF pc.ptr = 0 THEN profileHeap
                                    ELSE [profileHeap EXCEPT ![pc.ptr] =
                                            [used |-> TRUE, data |-> pc.data]])
                 /\ programFlash(Trunc16(pc.size), "ps", [who |-> "ps", blob |-> "none"],
                                 "ps_this", ret)
                 /\ steps' = <<"malloc settings", "memcpy settings", "Profile::CheckValid">>
                                \o (IF ProfileCheckValid
                                    THEN <<"Profile::getSize", "malloc profile">>
                                    ELSE <<>>)
                                \o (IF pc.fn = "freeDefaultProfile"
                                    THEN <<"createDefaultProfile">> ELSE <<>>)
                                \o programFlashSteps(Trunc16(pc.size))
                 /\ calls' = [calls EXCEPT ![id] =
                                [call EXCEPT !.psize = pc.size, !.ret = ret,
                                             !.begins = depthF' - depthF]]
       /\ nCalls' = id
       /\ committed' = (IF b = 0 THEN committed ELSE committed \cup {newSettings})
       /\ lastDone' = NoDone
       \* the statics are assigned before any check
       /\ overlapStart' = (overlapStart \/ Busy)
       \* beginProgramming
       /\ listeners' = (IF depthF' = depthF + 1 THEN Notify(listeners, "F", "Begin")
                        ELSE listeners)
       /\ UNCHANGED <<hwVars, ppVars, wVars, depthW, doubleFree, uafWrite, cbMismatch,
                      msgVars>>

(* --------------------- flash.cpp: programProfile ---------------------- *)
CallerBlobs == {"P2", "P6", "PX7", "PX8"}

programProfile ==
  /\ CanCall
  /\ \E blob \in CallerBlobs :
     \E b \in MallocChoices(settingsHeap) :
     LET id == nCalls + 1
         \* memcpy(settingsCopy, SettingsManager::getSettings(), sizeof(Settings))
         copied == IF getSettings = NullSettings THEN NullPageRecord ELSE flashSettings
         call == [kind |-> "programProfile", rec |-> copied, psize |-> BlobSize(blob),
                  ret |-> "refused", cbCount |-> 0, cbResult |-> FALSE,
                  before |-> getSettings, profBefore |-> flashProfile,
                  begins |-> 0, oom |-> (b = 0), live |-> flashSettings, arg |-> NoArg,
                  from |-> lastDone.id]
     IN
       /\ pp_onProgramFinished' = id
       /\ pp_settingsCopy' = b
       /\ IF b = 0
          THEN /\ calls' = [calls EXCEPT ![id] = call]
               /\ steps' = <<"malloc settings">>
               /\ UNCHANGED <<heapVars, pfVars, depthF, hwQueue, callback, faulted>>
          ELSE \E ret \in {"accepted", "refused", "faulted"} :
                 /\ settingsHeap' = [settingsHeap EXCEPT ![b] =
                                       [used |-> TRUE, data |-> copied]]
                 /\ profileHeap' = profileHeap
                 /\ programFlash(Trunc16(BlobSize(blob)), "pp",
                                 [who |-> "caller", blob |-> blob], "pp_this", ret)
                 /\ steps' = <<"malloc settings", "memcpy settings">>
                                \o programFlashSteps(Trunc16(BlobSize(blob)))
                 /\ calls' = [calls EXCEPT ![id] =
                                [call EXCEPT !.ret = ret, !.begins = depthF' - depthF]]
       /\ nCalls' = id
       /\ committed' = (IF b = 0 THEN committed ELSE committed \cup {copied})
       /\ lastDone' = NoDone
       \* the statics are assigned before any check
       /\ overlapStart' = (overlapStart \/ Busy)
       \* beginProgramming
       /\ listeners' = (IF depthF' = depthF + 1 THEN Notify(listeners, "F", "Begin")
                        ELSE listeners)
       /\ UNCHANGED <<hwVars, psVars, wVars, depthW, doubleFree, uafWrite, cbMismatch,
                      msgVars>>

(* ----------------- settings.cpp: ReceiveSettingsHandler --------------- *)
(* the erase completion lambda of ReceiveSettingsHandler: result is not
   looked at; the acknowledgement is sent and the bulk transfer is started *)
R_erased(result, q) ==
  /\ hwQueue' = q
  /\ callback' = "null"
  /\ faulted' = FALSE
  /\ sent' = Append(sent, [msg |-> "MessageType_TransferSettingsAck", result |-> result])
  /\ bulk' = "receiving"
  /\ steps' = <<"MessageType_TransferSettingsAck", "receiveToFlash">>
  /\ calls' = calls
  /\ lastDone' = NoDone
  /\ UNCHANGED <<psVars, ppVars, pfVars, wVars, heapVars, depthW, depthF, doubleFree>>

(* ------------------- flash.cpp: fstorage_evt_handler ------------------ *)
FStorageEvent ==
  /\ ~faulted
  /\ hwQueue # <<>>
  /\ hwQueue[1].st # "pending"
  /\ LET op == hwQueue[1]
         q == Tail(hwQueue)
         result == (op.st = "ok")
     IN
       /\ cbMismatch' = (cbMismatch \/ (op.solo /\ callback # op.cb))
       /\ \/ \* APP_ERROR_CHECK(p_evt->result) on a failed operation, with a
             \* fault handler that does not return
             /\ ~result
             /\ faulted' = TRUE
             /\ hwQueue' = q
             /\ NoInvoke
             /\ steps' = <<"APP_ERROR_CHECK">>
             /\ UNCHANGED <<callback, psVars, ppVars, pfVars, wVars, heapVars,
                            depthW, depthF, doubleFree, bulk>>
          \/ \* "No callback"
             /\ callback = "null"
             /\ hwQueue' = q
             /\ NoInvoke
             /\ steps' = <<>>
             /\ UNCHANGED <<faulted, callback, psVars, ppVars, pfVars, wVars, heapVars,
                            depthW, depthF, doubleFree, bulk>>
          \/ callback = "W_erased" /\ W_erased(result, q) /\ bulk' = bulk
          \/ callback = "W_written" /\ W_written(result, q) /\ bulk' = bulk
          \/ callback = "F_erased" /\ F_erased(result, q) /\ bulk' = bulk
          \/ callback = "F_settings" /\ F_settings(result, q) /\ bulk' = bulk
          \/ callback = "F_profile" /\ F_profile(result, q) /\ bulk' = bulk
          \/ callback = "R_erased" /\ R_erased(result, q)
  \* the End loop of finishWrite, or finishProgramming
  /\ listeners' = (IF "End" \in StepSet(steps')
                   THEN Notify(listeners,
                               IF callback \in {"W_erased", "W_written"} THEN "W" ELSE "F",
                               "End")
                   ELSE listeners)
  \* finishInit registers the message handlers
  /\ registered' = (registered \/ "RegisterMessageHandler" \in StepSet(steps'))
  /\ UNCHANGED <<hwVars, nCalls, committed, uafWrite, overlapStart>>

Next ==
  \/ programDefaults
  \/ programDesignAndColor
  \/ programCurrentBehavior
  \/ programDefaultParameters
  \/ programCalibrationData
  \/ programName
  \/ programSettings
  \/ programProfile
  \/ HwExecute
  \/ FStorageEvent

Spec == Init /\ [][Next]_vars

(* ============================ properties ============================== *)
Quiescent == hwQueue = <<>> /\ callback = "null" /\ ~faulted

\* C1: round trip. When the completion callback of an accepted commit of a
\* record R has just been invoked with success (and no other commit has been
\* issued since), getSettings() returns a record equal to R in every field.
C1_RoundTrip ==
  (lastDone.result /\ calls[lastDone.id].kind # "programProfile")
    => getSettings = calls[lastDone.id].rec

\* C2: a settings-only commit (Flash::programSettings) whose callback has just
\* reported success leaves the profile region holding exactly the profile
\* blob that was stored immediately before the commit started.
C2_SettingsOnlyKeepsProfile ==
  (lastDone.result /\ calls[lastDone.id].kind = "programSettings")
    => flashProfile = calls[lastDone.id].profBefore

\* C3: in every reachable state getSettings() returns null or a record equal
\* in every field to a record that was committed as a whole; never a hybrid
\* of field values of different records and never a partially written one.
C3_WholeRecordOrNull ==
  getSettings \in ({NullSettings} \cup committed)

\* C4: when the completion callback of a mutation has just reported failure,
\* getSettings() returns the same record it returned immediately before the
\* mutation was issued.
C4_FailureLeavesRecord ==
  (lastDone.id # 0 /\ ~lastDone.result)
    => getSettings = calls[lastDone.id].before

\* C5: capacity check. A commit through programFlash whose profile size plus
\* sizeof(Settings) exceeds getUsableBytes() is refused (returns false) and
\* notifies no listener (no Begin).
C5_CapacityRefused ==
  \A i \in 1..nCalls :
    (calls[i].kind \in {"programSettings", "programProfile"}
       /\ ~calls[i].oom
       /\ calls[i].psize + SizeofSettings > UsableBytes)
      => (calls[i].ret = "refused" /\ calls[i].begins = 0)

\* C6: out of memory is a safe no-op. A step that starts a commit whose
\* settings staging buffer could not be allocated issues no flash operation
\* and does not stop the device.
C6_OutOfMemoryNoOp ==
  [][(nCalls' = nCalls + 1 /\ calls'[nCalls'].oom)
       => (hwQueue' = hwQueue /\ faulted' = faulted)]_vars

\* C7: every staging buffer of an accepted commit is released exactly once on
\* the commit's terminal callback: no buffer is released twice, no flash write
\* reads a released buffer, and once every accepted commit has had its
\* terminal callback no staging buffer remains allocated.
AllAccepted ==
  \A i \in 1..nCalls : calls[i].ret = "accepted" /\ ~calls[i].oom
C7_BuffersReleasedOnce ==
  /\ ~doubleFree
  /\ ~uafWrite
  /\ (Quiescent /\ AllAccepted)
       => /\ \A b \in DOMAIN settingsHeap : ~settingsHeap[b].used
          /\ \A b \in DOMAIN profileHeap : ~profileHeap[b].used

\* C8: at most one commit is in flight. No commit starts (issues its erase)
\* while an operation of an earlier commit is still queued or a completion
\* callback of an earlier commit is still pending.
C8_OneCommitInFlight == ~overlapStart

\* C9: Begin and End bracket the whole commit. Each listener registry has seen
\* at most one Begin that is not yet matched by an End, and every queued
\* erase or write lies between a Begin and its End.
C9_BeginEndBracket ==
  /\ depthW \in {0, 1}
  /\ depthF \in {0, 1}
  /\ (hwQueue # <<>> /\ ~faulted) => depthW + depthF >= 1

\* C10: for a Flash::erase or Flash::write call made while no other flash
\* operation was outstanding, the callback found in the slot when the
\* completion event of that operation arrives is the one supplied with it.
C10_CallbackOfTheCall == ~cbMismatch

\* a step that delivers the completion event of a failed operation
FailedEventDelivered ==
  /\ hwQueue # <<>>
  /\ hwQueue[1].st = "fail"
  /\ nCalls' = nCalls
  /\ hwQueue' # hwQueue

\* C11: when the hardware reports a failed operation, the Flash layer invokes
\* the pending callback with result false (the device keeps running and the
\* slot held a callback) and issues no operation of its own.
C11_FailureReported ==
  [][FailedEventDelivered
       => (~faulted' /\ callback # "null" /\ hwQueue' = Tail(hwQueue))]_vars

\* C12: a failing commit step short-circuits to the terminal callback: the
\* step that delivers the failed completion issues no further operation and
\* invokes the caller's completion callback with false.
C12_FailureShortCircuits ==
  [][FailedEventDelivered
       => (hwQueue' = Tail(hwQueue) /\ lastDone'.id # 0 /\ ~lastDone'.result)]_vars

(* ------------- checkValid on stored records and bit errors ------------- *)
BitPositions == 0..31
\* x with bit b inverted, for a 32-bit word x >= 0 (bit 31 is the sign bit)
FlipBit(x, b) ==
  IF b = 31 THEN x - 2^30 - 2^30
  ELSE IF (x \div 2^b) % 2 = 1 THEN x - 2^b ELSE x + 2^b

MarkerFields == {"headMarker", "tailMarker", "version"}

\* stored records checkValid is applied to: valid ones, an erased page, a
\* page of zeroes, and records with one wrong marker or another version
CheckValidRecords ==
  {InitialRecord, setDefaults(UninitSettings(7)),
   [InitialRecord EXCEPT !.designAndColor = 3], ErasedRecord, NullPageRecord,
   [InitialRecord EXCEPT !.headMarker = Erased32],
   [InitialRecord EXCEPT !.tailMarker = 0],
   [InitialRecord EXCEPT !.version = SETTINGS_VERSION + 1],
   [InitialRecord EXCEPT !.version = SETTINGS_VERSION - 1]}

CheckValidInit ==
  /\ flashSettings \in CheckValidRecords
  /\ committed = {}
  /\ ps_profileSize = 0
  /\ registered = TRUE
  /\ InitRest

\* one bit of a marker or of the version of a valid stored record changes
BitError ==
  /\ checkValid(flashSettings)
  /\ \E f \in MarkerFields : \E b \in BitPositions :
       flashSettings' = [flashSettings EXCEPT ![f] = FlipBit(@, b)]
  /\ UNCHANGED <<flashProfile, profileClean, hwQueue, faulted, callback, psVars, ppVars,
                 pfVars, wVars, heapVars, obsVars, steps, msgVars, listeners>>

CheckValidNext == BitError

CheckValidSpec == CheckValidInit /\ [][CheckValidNext]_vars

\* C13: checkValid() is true if and only if headMarker and tailMarker equal
\* the magic constant and version equals the current version; and changing
\* any single bit of headMarker, tailMarker or version of a valid record
\* makes it false.
C13_CheckValid ==
  /\ [](checkValid(flashSettings)
          <=> (/\ flashSettings.headMarker = SETTINGS_VALID_KEY
               /\ flashSettings.tailMarker = SETTINGS_VALID_KEY
               /\ flashSettings.version = SETTINGS_VERSION))
  /\ [][checkValid(flashSettings) /\ flashSettings' # flashSettings
          => ~checkValid(flashSettings')]_vars

\* a record that was valid and has had one bit of its tail marker changed
C13_Witness ==
  /\ flashSettings.headMarker = SETTINGS_VALID_KEY
  /\ flashSettings.version = SETTINGS_VERSION
  /\ flashSettings.tailMarker = FlipBit(SETTINGS_VALID_KEY, 31)
  /\ ~checkValid(flashSettings)

FacadeKinds ==
  {"programDefaults", "programDefaultParameters", "programCalibrationData",
   "programDesignAndColor", "programCurrentBehavior", "programName"}

\* C14: every record a facade mutation hands to writeToFlash has both markers
\* equal to the magic constant and the current version, whatever the settings
\* page held when the mutation was called.
C14_FacadeRecordValid ==
  \A i \in 1..nCalls :
    calls[i].kind \in FacadeKinds => checkValid(calls[i].rec)

(* ---------------------------- settings.cpp: init ----------------------- *)
\* what the settings page may hold when the device boots: never programmed,
\* zeroes, a record of another firmware version, or a valid record
BootRecords ==
  {ErasedRecord, NullPageRecord,
   [InitialRecord EXCEPT !.version = SETTINGS_VERSION - 1],
   InitialRecord, [InitialRecord EXCEPT !.designAndColor = 3]}

BootInit ==
  /\ flashSettings \in BootRecords
  /\ committed = {}
  /\ ps_profileSize = 0
  /\ registered = FALSE
  /\ InitRest

init ==
  /\ CanCall
  /\ nCalls = 0
  /\ IF ~checkValid(flashSettings)
     THEN \* programDefaults(finishInit)
          \E g \in StackGarbage :
            /\ init_callback' = 1
            /\ programNameCallback' = programNameCallback
            /\ writeToFlash(setDefaults(UninitSettings(g)), 1, "init", NoArg, finishInit)
     ELSE \* finishInit(true)
          /\ init_callback' = 0
          /\ nCalls' = 1
          /\ calls' = [calls EXCEPT ![1] =
                         [NoCall EXCEPT !.kind = "init", !.ret = "accepted",
                                        !.cbCount = 1, !.cbResult = TRUE,
                                        !.before = getSettings, !.live = flashSettings,
                                        !.profBefore = flashProfile]]
          /\ lastDone' = [id |-> 1, result |-> TRUE]
          /\ steps' = <<"RegisterMessageHandler", "callback">>
          /\ registered' = TRUE
          /\ UNCHANGED <<hwVars, hwQueue, faulted, callback, psVars, ppVars, pfVars,
                         writeToFlashCallback, sourceSettings, programNameCallback,
                         heapVars, committed, depthW, depthF, doubleFree, uafWrite,
                         overlapStart, cbMismatch, sent, bulk, listeners>>

BootNext ==
  \/ init
  \/ HwExecute
  \/ FStorageEvent

BootSpec == BootInit /\ [][BootNext]_vars

\* init() has been called and nothing more will happen
BootOver == nCalls = 1 /\ hwQueue = <<>> /\ (faulted \/ callback = "null")

\* C15: from a settings page without valid markers init() programs the
\* default record and invokes the init callback exactly once (never twice,
\* and it has been invoked when the programming is over); after a success
\* callback getSettings() returns the valid record setDefaults built. With a
\* valid page init() issues no flash operation and the callback has been
\* invoked once, with true.
C15_Init ==
  /\ calls[1].cbCount <= 1
  /\ (BootOver /\ calls[1].kind = "init") => calls[1].cbCount = 1
  /\ (lastDone.result /\ ~checkValid(calls[1].live))
       => (checkValid(calls[1].rec) /\ getSettings = calls[1].rec)
  /\ (nCalls = 1 /\ checkValid(calls[1].live))
       => (calls[1].cbCount = 1 /\ calls[1].cbResult /\ hwQueue = <<>> /\ depthW = 0)

\* C16: setDefaults is deterministic and always valid: the records built by
\* any two calls of programDefaults are valid and equal in every field.
C16_SetDefaultsDeterministic ==
  \A i, j \in 1..nCalls :
    (calls[i].kind = "programDefaults" /\ calls[j].kind = "programDefaults")
      => (checkValid(calls[i].rec) /\ calls[i].rec = calls[j].rec)

CalibrationFields ==
  {"faceNormals0", "faceNormals1", "faceLayoutLookupIndex",
   "faceToLEDLookup0", "faceToLEDLookup1"}
\* the calibration fields programCalibrationData sets for a given count
CalibrationSet(count) ==
  {NormalField(k) : k \in 0..(count - 1)} \cup {LookupField(k) : k \in 0..(count - 1)}
    \cup {"faceLayoutLookupIndex"}

\* C17: programCalibrationData on a valid live record commits a record whose
\* first count normals and lookup entries and whose layout index equal the
\* inputs and whose every other field equals the live record before the call.
C17_CalibrationFrame ==
  \A i \in 1..nCalls :
    (calls[i].kind = "programCalibrationData" /\ checkValid(calls[i].live))
      => LET in == calls[i].arg
             rec == calls[i].rec
         IN /\ \A k \in 0..(in.count - 1) :
                 /\ rec[NormalField(k)] = in.newNormals[k + 1]
                 /\ rec[LookupField(k)] = in.newFaceToLEDLookup[k + 1]
            /\ rec.faceLayoutLookupIndex = in.faceLayoutLookupIndex
            /\ \A f \in DOMAIN rec \ CalibrationSet(in.count) :
                 rec[f] = calls[i].live[f]

\* a calibration of the first face only, on a valid record, has been committed
\* and read back: the second entries are those of the record before the call
C17_Witness ==
  \E i \in 1..nCalls :
    /\ calls[i].kind = "programCalibrationData"
    /\ calls[i].arg.count = 1
    /\ checkValid(calls[i].live)
    /\ lastDone = [id |-> i, result |-> TRUE]
    /\ getSettings = calls[i].rec
    /\ calls[i].rec.faceNormals0 = 41
    /\ calls[i].rec.faceNormals1 = calls[i].live.faceNormals1

NamedField(c) ==
  CASE c.kind = "programDesignAndColor" -> {"designAndColor"}
    [] c.kind = "programCurrentBehavior" -> {"currentBehaviorIndex"}
    [] c.kind = "programName" -> {NameBytes[k] : k \in 1..Len(NameBytes)}
\* the record holds the value the call was given in the field it names
HoldsNamedValue(c) ==
  CASE c.kind = "programDesignAndColor" -> c.rec.designAndColor = c.arg.design
    [] c.kind = "programCurrentBehavior" -> c.rec.currentBehaviorIndex = c.arg.behaviorIndex
    [] c.kind = "programName" -> c.rec.name = c.arg.newName[1]

\* C19: programDesignAndColor, programCurrentBehavior and programName commit
\* the whole record with one field changed: the committed record has the
\* named field equal to the input and every other field equal to the live
\* record before the call.
C19_SingleFieldChange ==
  \A i \in 1..nCalls :
    calls[i].kind \in {"programDesignAndColor", "programCurrentBehavior", "programName"}
      => /\ HoldsNamedValue(calls[i])
         /\ \A f \in DOMAIN calls[i].rec \ NamedField(calls[i]) :
              calls[i].rec[f] = calls[i].live[f]

\* C20: when a profile-only commit (Flash::programProfile) reports success,
\* the settings page holds, field for field, the record it held when the
\* commit was issued (valid or not), so getSettings() returns what it returned
\* before.
C20_ProfileCommitKeepsSettings ==
  (lastDone.result /\ calls[lastDone.id].kind = "programProfile")
    => /\ getSettings = calls[lastDone.id].before
       /\ flashSettings = calls[lastDone.id].live

(* ------------------- settings.cpp: the message handlers ---------------- *)
\* the name a MessageSetName carries fits Settings::name
MessageNames == {<<78>>}

ProgramDefaultParametersHandler ==
  programDefaultParametersWith(ProgramDefaultParametersLambda)
SetDesignTypeAndColorHandler ==
  programDesignAndColorWith(SetDesignTypeAndColorLambda)
SetCurrentBehaviorHandler ==
  programCurrentBehaviorWith(SetCurrentBehaviorLambda)
SetNameHandler ==
  programNameWith(MessageNames, SetNameLambda)

\* the records a full settings download may carry
DownloadedSettings == NewSettingsInputs

(* ReceiveSettingsHandler: Flash::erase((uint32_t)settings, 1, lambda) *)
ReceiveSettingsHandler ==
  /\ CanCall
  /\ bulk = "idle"
  /\ FlashErase(hwQueue, 1, "R_erased")
  /\ nCalls' = nCalls + 1
  /\ calls' = [calls EXCEPT ![nCalls + 1] =
                 [NoCall EXCEPT !.kind = "ReceiveSettingsHandler", !.ret = "accepted",
                                !.from = lastDone.id,
                                !.before = getSettings, !.live = flashSettings,
                                !.profBefore = flashProfile]]
  /\ lastDone' = NoDone
  /\ overlapStart' = (overlapStart \/ Busy)
  /\ steps' = <<"erase">>
  /\ UNCHANGED <<hwVars, psVars, ppVars, pfVars, wVars, heapVars, committed,
                 depthW, depthF, doubleFree, uafWrite, cbMismatch, msgVars, listeners>>

(* ReceiveBulkData::receiveToFlash((uint32_t)settings, nullptr, lambda): the
   chunks of the transfer are programmed into the settings page, then the
   lambda of ReceiveSettingsHandler is called with the outcome *)
ReceiveBulkDataFinished ==
  /\ ~faulted
  /\ bulk = "receiving"
  /\ \E success \in BOOLEAN :
     \E data \in DownloadedSettings :
     \E k \in (IF success THEN {Len(Fields)} ELSE 0..(Len(Fields) - 1)) :
       /\ flashSettings' = ProgramWords(flashSettings, data, k)
       /\ committed' = committed \cup {data}
       /\ IF success
          THEN /\ sent' = Append(sent, [msg |-> "MessageType_TransferSettingsFinished",
                                        result |-> TRUE])
               /\ steps' = <<"MessageType_TransferSettingsFinished", "Stack::disconnect",
                             "Stack::stopAdvertising", "Stack::startAdvertising">>
          ELSE /\ sent' = sent
               /\ steps' = <<>>
  /\ bulk' = "idle"
  /\ lastDone' = NoDone
  /\ UNCHANGED <<registered, listeners, flashProfile, profileClean, hwQueue, faulted, callback, psVars, ppVars,
                 pfVars, wVars, heapVars, nCalls, calls, depthW, depthF, doubleFree,
                 uafWrite, overlapStart, cbMismatch>>

WirelessNext ==
  \/ ReceiveSettingsHandler
  \/ ProgramDefaultParametersHandler
  \/ SetDesignTypeAndColorHandler
  \/ SetCurrentBehaviorHandler
  \/ SetNameHandler
  \/ ReceiveBulkDataFinished
  \/ HwExecute
  \/ FStorageEvent

WirelessSpec == Init /\ [][WirelessNext]_vars

\* the acknowledgement of each kind of mutation request
AckOfKind(kind) ==
  CASE kind = "programDefaultParameters" -> "MessageType_ProgramDefaultParametersFinished"
    [] kind = "programDesignAndColor" -> "MessageType_SetDesignAndColorAck"
    [] kind = "programCurrentBehavior" -> "MessageType_SetCurrentBehaviorAck"
    [] kind = "programName" -> "MessageType_SetNameAck"
    [] OTHER -> "none"
MutationAcks == {AckMessage(cb, TRUE) : cb \in HandlerLambdas}

\* C21: the acknowledgement a mutation handler sends tells the outcome of the
\* commit: a message sent after a failed commit is never the same as a
\* message sent after a successful one.
C21_AckCarriesOutcome ==
  \A i, j \in 1..Len(sent) :
    (sent[i].msg \in MutationAcks /\ sent[i].result # sent[j].result)
      => sent[i].msg # sent[j].msg

\* the step sends message m
Sends(m) == Len(sent') = Len(sent) + 1 /\ sent'[Len(sent')].msg = m
CountSent(m) == Cardinality({i \in 1..Len(sent) : sent[i].msg = m})
CountCalls(kind) == Cardinality({i \in 1..nCalls : calls[i].kind = kind})

\* C22: a mutation handler's acknowledgement is sent when its commit has
\* reached its terminal callback: no flash operation is queued or running
\* when it is sent; and a request is acknowledged at most once, with the
\* message type of its kind.
C22_OneAckAfterCommit ==
  /\ [][\A m \in MutationAcks : Sends(m) => hwQueue' = <<>>]_vars
  /\ [](\A i \in 1..nCalls :
          CountSent(AckOfKind(calls[i].kind)) <= CountCalls(calls[i].kind))

\* C23: a settings download. The transfer acknowledgement is sent when the
\* erase ReceiveSettingsHandler issued has completed and the settings page is
\* erased; the bulk transfer runs only after the acknowledgement; the
\* transfer-finished message and the reconnection of the link happen only
\* when a running transfer has completed successfully.
C23_DownloadOrder ==
  /\ [][Sends("MessageType_TransferSettingsAck")
          => /\ hwQueue[1].kind = "erase"
             /\ hwQueue[1].cb = "R_erased"
             /\ flashSettings = ErasedRecord]_vars
  /\ [](bulk = "receiving" => CountSent("MessageType_TransferSettingsAck") >= 1)
  /\ [][("Stack::disconnect" \in {steps'[i] : i \in 1..Len(steps')}
          \/ Sends("MessageType_TransferSettingsFinished"))
          => /\ bulk = "receiving"
             /\ flashSettings' \in DownloadedSettings
             /\ steps' = <<"MessageType_TransferSettingsFinished", "Stack::disconnect",
                           "Stack::stopAdvertising", "Stack::startAdvertising">>]_vars

(* ------------------ order of the hardware operations ------------------ *)
\* the step is a completion handler that issues an operation of this kind
Issues(kind) ==
  /\ hwQueue # <<>>
  /\ hwQueue[1].st # "pending"
  /\ nCalls' = nCalls
  /\ hwQueue' # <<>>
  /\ hwQueue' = Append(Tail(hwQueue), hwQueue'[Len(hwQueue')])
  /\ hwQueue'[Len(hwQueue')].kind = kind
  /\ hwQueue'[Len(hwQueue')].st = "pending"
\* the step is the hardware executing an operation of this kind
Executes(kind) ==
  /\ hwQueue # <<>>
  /\ hwQueue[1].kind = kind
  /\ hwQueue[1].st = "pending"
  /\ hwQueue' # <<>>
  /\ hwQueue'[1].st # "pending"

\* C24: a settings write is issued when an erase has just completed with
\* success, a profile write when a settings write has just completed with
\* success, and a region is erased when it is programmed.
C24_EraseBeforeProgram ==
  /\ [][Issues("wsettings") => (hwQueue[1].kind = "erase" /\ hwQueue[1].st = "ok")]_vars
  /\ [][Issues("wprofile") => (hwQueue[1].kind = "wsettings" /\ hwQueue[1].st = "ok")]_vars
  /\ [][Executes("wsettings") => flashSettings = ErasedRecord]_vars
  /\ [][Executes("wprofile")
          => (flashProfile = "FF" \/ hwQueue[1].size <= profileClean)]_vars

(* ----------------- progress of a commit under fairness ----------------- *)
\* commits of both paths, with the hardware always completing what it was
\* given and the completion event always delivered
LiveNext ==
  \/ programCurrentBehavior
  \/ programSettings
  \/ HwExecute
  \/ FStorageEvent

LiveSpec ==
  Init /\ [][LiveNext]_vars /\ WF_vars(HwExecute) /\ WF_vars(FStorageEvent)

Idle ==
  /\ hwQueue = <<>> /\ callback = "null"
  /\ depthW = 0 /\ depthF = 0
  /\ writeToFlashCallback = 0 /\ sourceSettings = 0
  /\ ps_settingsCopy = 0 /\ ps_profileCopy = 0

\* C25: every accepted commit eventually has had its completion callback
\* invoked, exactly once, with the listeners notified End and the store idle
\* again (no pending callback, no staged buffer).
C25_CommitTerminates ==
  \A i \in 1..MaxCalls :
    /\ [](calls[i].cbCount <= 1)
    /\ (calls[i].ret = "accepted") ~> (calls[i].cbCount = 1)
    /\ (calls[i].ret = "accepted") ~> Idle

(* ---------------------- the terminal steps of a commit ------------------ *)
\* the place of a step in what a handler did; 0 when it did not do it
StepIndex(sq, x) ==
  IF x \in StepSet(sq) THEN CHOOSE i \in 1..Len(sq) : sq[i] = x ELSE 0

\* C26: when the callback of a settings commit (Flash::programSettings) is
\* invoked on the successful completion of the profile write, its argument is
\* the result of Profile::Static::refreshData; when it is invoked on anything
\* else, refreshData has not been called and the argument is false.
C26_OutcomeIsRevalidation ==
  [][(lastDone'.id # 0 /\ calls[lastDone'.id].kind = "programSettings")
       => IF hwQueue[1].kind = "wprofile" /\ hwQueue[1].st = "ok"
          THEN "refreshData" \in StepSet(steps') /\ lastDone'.result = refreshData
          ELSE "refreshData" \notin StepSet(steps') /\ ~lastDone'.result]_vars

\* C27: when a settings commit ends after a successful profile write, the
\* staged buffers are released first, then the profile is revalidated, then
\* the listeners are notified End, then the caller's callback runs.
C27_TerminalOrder ==
  ({"End", "refreshData", "callback"} \subseteq StepSet(steps))
    => /\ StepIndex(steps, "free settings") < StepIndex(steps, "refreshData")
       /\ StepIndex(steps, "free profile") < StepIndex(steps, "refreshData")
       /\ StepIndex(steps, "refreshData") < StepIndex(steps, "End")
       /\ StepIndex(steps, "End") < StepIndex(steps, "callback")

\* what a commit does to stage its data and to start the erase
StagingSteps ==
  {"malloc settings", "memcpy settings", "Profile::CheckValid", "Profile::getSize",
   "malloc profile", "createDefaultProfile", "erase"}

\* C28: a commit notifies the listeners Begin before it does anything else:
\* before the record and the profile are staged (so before the stored
\* profile is looked at) and before the erase is issued.
C28_BeginFirst ==
  "Begin" \in StepSet(steps)
    => \A x \in StagingSteps \cap StepSet(steps) :
         StepIndex(steps, "Begin") < StepIndex(steps, x)

(* ------------------- programFlash: the erased span -------------------- *)
\* the profile sizes the computation of the span is applied to
MaxProfileSize == 120

SpanInit ==
  /\ flashSettings = InitialRecord
  /\ committed = {InitialRecord}
  /\ ps_profileSize \in 0..MaxProfileSize
  /\ registered = TRUE
  /\ InitRest

\* totalSize, flashSize, pageCount and the erase programFlash asks for, for
\* the profile size it is given (whatever the size of the flash)
programFlashSpan ==
  /\ hwQueue = <<>>
  /\ LET profileSize == Trunc16(ps_profileSize)
         totalSize == profileSize + SizeofSettings
         flashSize == getFlashByteSize(totalSize)
         pageCount == bytesToPages(flashSize)
     IN hwQueue' = <<EraseOp(pageCount, "F_erased", TRUE)>>
  /\ callback' = "F_erased"
  /\ steps' = <<"erase">>
  /\ UNCHANGED <<hwVars, faulted, psVars, ppVars, pfVars, wVars, heapVars, obsVars,
                 msgVars, listeners>>

SpanNext == programFlashSpan

SpanSpec == SpanInit /\ [][SpanNext]_vars

determineFaceSteps ==
  <<"determineFace", "getSettings"
  >> \o (IF getSettings = NullSettings THEN <<"dereference nullptr">>
                                        ELSE <<"faceNormals">>)

\* the rest of update: settings->sigmaDecaySlow, settings->sigmaDecayFast, no
\* null check, then the frame is pushed and the clients are notified
updateSigmaSteps ==
  <<"getSettings"
  >> \o (IF getSettings = NullSettings THEN <<"dereference nullptr">>
                                        ELSE <<"sigmaDecaySlow", "sigmaDecayFast">>)
     \o <<"buffer.push", "clients">>

\* update is called from the timer, whatever the flash is doing. Reading
\* through the null pointer either faults where it happens or yields whatever
\* lies at that address and the update goes on.
update ==
  /\ ~faulted
  /\ \/ /\ getSettings = NullSettings
        /\ faulted' = TRUE
        /\ steps' = <<"LIS2DE12::read">> \o determineFaceSteps
     \/ /\ faulted' = faulted
        /\ steps' = <<"LIS2DE12::read">> \o determineFaceSteps \o updateSigmaSteps
  \* the completion handler, if one has just run, has returned
  /\ lastDone' = NoDone
  /\ UNCHANGED <<hwVars, hwQueue, callback, psVars, ppVars, pfVars, wVars, heapVars,
                 nCalls, calls, committed, depthW, depthF, doubleFree, uafWrite,
                 overlapStart, cbMismatch, msgVars, listeners>>

AccelNext ==
  \/ update
  \/ programDesignAndColor
  \/ programSettings
  \/ HwExecute
  \/ FStorageEvent

AccelSpec == Init /\ [][AccelNext]_vars

\* C30: a timer update of the accelerometer never reads through the pointer
\* getSettings() returned when that pointer is null, in particular between the
\* erase of a commit and the completion of its settings write.
C30_ReaderChecksNull ==
  "dereference nullptr" \notin StepSet(steps)

(* ------------------------ brackets and the flash ----------------------- *)
\* an erase or a program of a region the store owns is queued or under way
FlashInFlight == hwQueue # <<>> \/ bulk = "receiving"

\* C31: every erase and every program of a region the store owns happens
\* inside a Begin/End bracket: no operation on the settings region is queued or
\* under way, the full settings download included, while no listener registry
\* has been notified Begin.
C31_FlashInsideBracket ==
  FlashInFlight => depthW > 0 \/ depthF > 0

(* --------------------------- refused commits --------------------------- *)
UsedBlocks(h) == {b \in DOMAIN h : h[b].used}

\* the step is a call of programSettings or programProfile that returns false
ReturnsFalse ==
  /\ nCalls' = nCalls + 1
  /\ calls'[nCalls'].kind \in {"programSettings", "programProfile"}
  /\ calls'[nCalls'].ret = "refused"

\* C32: when programSettings or programProfile returns false, no staging
\* buffer the call allocated is still allocated and the call has left no flash
\* operation pending.
C32_RefusedLeavesNothing ==
  [][ReturnsFalse
       => /\ UsedBlocks(settingsHeap') \subseteq UsedBlocks(settingsHeap)
          /\ UsedBlocks(profileHeap') \subseteq UsedBlocks(profileHeap)
          /\ hwQueue' = hwQueue]_vars

(* ------------------------ the pending-callback slot -------------------- *)
\* C33: the completion event of an operation is delivered to the callback
\* that was supplied with that operation: while the device runs, the slot the
\* event handler will read holds the callback of the oldest outstanding
\* operation, also when a call was issued with another operation outstanding.
C33_EventToItsCallback ==
  (~faulted /\ hwQueue # <<>>) => callback = hwQueue[1].cb

(* ------------------ commits made from a completion callback ------------ *)
\* call i was made from inside the completion callback of another call, which
\* is the last thing every completion handler does
Chained(i) == calls[i].from # 0

\* C34: a mutation issued from inside the completion callback of a mutation
\* runs as a complete commit of its own: it notifies its own Begin, its
\* completion callback is invoked exactly once, and by then the listeners have
\* been notified End and nothing of the commit is left pending.
C34_ChainedCommit ==
  \A i \in 1..MaxCalls :
    /\ []((Chained(i) /\ calls[i].ret = "accepted") => calls[i].begins = 1)
    /\ [](Chained(i) => calls[i].cbCount <= 1)
    /\ (Chained(i) /\ calls[i].ret = "accepted")
         ~> (calls[i].cbCount = 1 /\ depthW = 0 /\ depthF = 0 /\ hwQueue = <<>>)

(* ------------------- init and the message handlers -------------------- *)
\* MessageService runs the handler of a message type once it is registered
SetCurrentBehaviorMessage == registered /\ SetCurrentBehaviorHandler
TransferSettingsMessage == registered /\ ReceiveSettingsHandler

BootWirelessNext ==
  \/ init
  \/ SetCurrentBehaviorMessage
  \/ TransferSettingsMessage
  \/ ReceiveBulkDataFinished
  \/ HwExecute
  \/ FStorageEvent

BootWirelessSpec == BootInit /\ [][BootWirelessNext]_vars

\* C35: init() registers the message handlers only when the commit of the
\* default record, if there is one, has reached its terminal callback, so no
\* wireless mutation or download starts while that commit is in flight; the
\* init callback is invoked exactly once, and once init() has been called the
\* handlers are registered unless its commit is still in flight, whether the
\* commit succeeds or fails.
C35_RegisteredAfterInit ==
  /\ registered => (nCalls >= 1 /\ calls[1].kind = "init" /\ calls[1].cbCount = 1)
  /\ (nCalls >= 1 => calls[1].cbCount <= 1)
  /\ ~overlapStart
  /\ (nCalls >= 1 /\ ~registered) => (~faulted /\ hwQueue # <<>>)

(* --------------- hookProgrammingEvent, unhookProgrammingEvent ---------- *)
(* settings.cpp and flash.cpp: hookProgrammingEvent, on either registry, at
   any moment *)
hookProgrammingEvent ==
  /\ ~faulted
  /\ \E r \in Registries :
       /\ ~listeners[r].hooked
       /\ listeners' = [listeners EXCEPT ![r].hooked = TRUE]
  /\ lastDone' = NoDone
  /\ steps' = <<"Register">>
  /\ UNCHANGED <<hwVars, hwQueue, faulted, callback, psVars, ppVars, pfVars, wVars,
                 heapVars, nCalls, calls, committed, depthW, depthF, doubleFree,
                 uafWrite, overlapStart, cbMismatch, msgVars>>

(* settings.cpp and flash.cpp: unhookProgrammingEvent *)
unhookProgrammingEvent ==
  /\ ~faulted
  /\ \E r \in Registries :
       /\ listeners[r].hooked
       /\ listeners' = [listeners EXCEPT ![r].hooked = FALSE]
  /\ lastDone' = NoDone
  /\ steps' = <<"UnregisterWithHandler">>
  /\ UNCHANGED <<hwVars, hwQueue, faulted, callback, psVars, ppVars, pfVars, wVars,
                 heapVars, nCalls, calls, committed, depthW, depthF, doubleFree,
                 uafWrite, overlapStart, cbMismatch, msgVars>>

ListenerNext ==
  \/ hookProgrammingEvent
  \/ unhookProgrammingEvent
  \/ programCurrentBehavior
  \/ programProfile
  \/ HwExecute
  \/ FStorageEvent

ListenerSpec == Init /\ [][ListenerNext]_vars

\* C36: for each listener Begin and End alternate strictly, starting with
\* Begin, however commits interleave with hookProgrammingEvent and
\* unhookProgrammingEvent: no listener receives End without a preceding Begin
\* or two Begin in a row, and when the store is idle no listener is left with
\* Begin as the last notification it received.
C36_BeginEndAlternate ==
  \A r \in Registries :
    /\ ~listeners[r].misordered
    /\ (Quiescent /\ depthW = 0 /\ depthF = 0) => listeners[r].last # "Begin"

(* ------------- programSettings: profileSize handed to programFlash ----- *)
\* the sizes reported by the profile collaborator (a uint32_t) that the
\* hand-over is applied to: the ones within SizeMargin of the largest uint16_t
SizeMargin == 60
ReportedSizes == (65536 - SizeMargin)..(65536 + SizeMargin)

NarrowInit ==
  /\ flashSettings = InitialRecord
  /\ committed = {InitialRecord}
  /\ ps_profileSize \in ReportedSizes
  /\ registered = TRUE
  /\ InitRest

NarrowNext == programFlashSpan

NarrowSpec == NarrowInit /\ [][NarrowNext]_vars

\* C37: the profile size programFlash computes the erase span and the capacity
\* check from is the size programSettings holds, the number of bytes its
\* profile write programs: handing the 32-bit size to the 16-bit parameter does
\* not change it, whatever size the profile collaborator reported.
C37_SizeSurvivesNarrowing ==
  \A i \in 1..Len(hwQueue) :
    hwQueue[i].kind = "erase"
      => /\ Trunc16(ps_profileSize) = ps_profileSize
         /\ hwQueue[i].pages = bytesToPages(getFlashByteSize(ps_profileSize + SizeofSettings))
         /\ (UsableBytes > Trunc16(ps_profileSize)) = (UsableBytes > ps_profileSize)

(* ------------------------------ programName --------------------------- *)
NameNext ==
  \/ programName
  \/ HwExecute
  \/ FStorageEvent

NameSpec == Init /\ [][NameNext]_vars

\* C38: programName asks the stack to reset on disconnect only in the
\* terminal callback of the name commit, after End and before the caller's
\* callback, and every accepted programName call has had its callback invoked
\* exactly once when the store is idle again, also when the commits of two
\* programName calls overlap.
C38_NameCallbackOnce ==
  /\ "Stack::resetOnDisconnect" \in StepSet(steps)
       => /\ "End" \in StepSet(steps)
          /\ StepIndex(steps, "End") < StepIndex(steps, "Stack::resetOnDisconnect")
          /\ "callback" \in StepSet(steps)
               => StepIndex(steps, "Stack::resetOnDisconnect") < StepIndex(steps, "callback")
  /\ \A i \in 1..nCalls :
       calls[i].kind = "programName"
         => /\ calls[i].cbCount <= 1
            /\ (Quiescent /\ calls[i].ret = "accepted") => calls[i].cbCount = 1

(* ------------------ the slot and the completion events ----------------- *)
\* the step is fstorage_evt_handler handling the completion of the oldest
\* operation
EventStep ==
  /\ hwQueue # <<>>
  /\ hwQueue[1].st # "pending"
  /\ nCalls' = nCalls
  /\ hwQueue' # hwQueue

====
